---- MODULE Spec2Model ----
(***************************************************************************)
(* Model of AudioEngine (mobile/android/app/src/main/cpp/AudioEngine.cpp). *)
(*                                                                         *)
(* Three threads touch the engine:                                         *)
(*   - the control thread, which calls start, stop, reset, loadTrack,      *)
(*     clearTracks, startRecording, stopRecording and seekToFrame          *)
(*     (native-lib.cpp forwards each JNI call to one engine method);       *)
(*   - the audio thread, on which the playback stream delivers             *)
(*     onAudioReady while that stream is Started;                          *)
(*   - the stream's error thread, which closes the playback stream and     *)
(*     then calls onErrorAfterClose.                                       *)
(*                                                                         *)
(* onAudioReady is split at each access to shared state, so that the       *)
(* control thread's operations interleave with a callback in flight.       *)
(* Stopping a stream keeps further callbacks from starting and does not    *)
(* wait for the one in flight; closing a stream returns only once no       *)
(* callback is in flight.                                                  *)
(*                                                                         *)
(* Float samples are counted in units of 2^-15: the conversion of line 172 *)
(* (int16 * 1/32768) is exact in binary floating point, so a raw sample r  *)
(* becomes the float r * 2^-15, held here as the integer r.                *)
(***************************************************************************)
EXTENDS Integers, Sequences, FiniteSets, TLC

\* ------------------------------------------------------------------ bounds
\* Largest numFrames the device delivers to one callback.
MaxFrames == 2
\* Callbacks are delivered while the clock stays at or below this value.
MaxClock == 3
\* The device stops yielding samples once this many were counted or written.
MaxRecorded == 2
\* Largest number of loaded tracks.
MaxTracks == 2
\* Width in bits that stands for the 64 bits of the frame clock and of
\* trackOffset, and the width that stands for the 32 bits of Track::startFrame,
\* Track::lengthFrames and numFrames.
ClockBits == 9
FrameBits == 8

\* Two's-complement ranges of the two widths.
ClockMin == -(2 ^ (ClockBits - 1))
ClockMax == (2 ^ (ClockBits - 1)) - 1
FrameMin == -(2 ^ (FrameBits - 1))
FrameMax == (2 ^ (FrameBits - 1)) - 1

\* A value reduced to the clock's width, as the hardware adder leaves it.
WrapClock(x) == ((x - ClockMin) % (2 ^ ClockBits)) + ClockMin

\* Arguments the control thread passes.
SeekFrames == {-1, 0, 2}
RecordStartFrames == {0, 2}
TrackStartFrames == {1}
TrackSamples == {<<>>, <<16384>>, <<-32768, 32767>>}
\* Results the error thread reports.
ErrorResults == {"ErrorDisconnected", "ErrorInternal"}

\* oboe::StreamState values the engine tests for, and "None" for a null
\* shared_ptr.
StreamStates == {"None", "Open", "Started", "Stopped", "Closed"}
Live == {"Open", "Started", "Stopped"}

\* History of the clock: the last seek, stop or reset that no callback has
\* followed yet, the clock value it left, and the numFrames of the callback
\* that was in flight then (0 when none was).
NoMark == [by |-> "none", frame |-> 0, carry |-> 0]
Mark(by, f, c) == [by |-> by, frame |-> f, carry |-> c]

VARIABLES
    mIsRunning,            \* std::atomic<bool>
    mPlayStream,           \* state of the playback stream handle
    mRecordStream,         \* state of the capture stream handle
    mCurrentFrame,         \* std::atomic<int64_t>, the frame clock
    mTracks,               \* std::vector<Track>
    mTrackMutex,           \* "free", "ctl" or "audio": who holds the mutex
    mIsRecording,          \* std::atomic<bool>
    mRecordingFile,        \* std::ofstream: [open, fail, len]
    mRecordStartFrame,     \* int32_t
    mRecordedSampleCount,  \* std::atomic<int64_t>
    cpc,                   \* control thread: position
    apc,                   \* audio thread: position inside onAudioReady
    numFrames,             \* onAudioReady: parameter
    currentFrame,          \* onAudioReady: local, line 221
    readResult,            \* onAudioReady: local, line 232
    outputBuffer,          \* onAudioReady: accumulated frames before clipping
    markG,                 \* history: seek, stop or reset awaiting a callback
    recG,                  \* history: recording control ran during the callback
    lastRecG,              \* history: outcome of the last recording control call
    appendedG              \* history: samples the sink took since line 187 ran

engine == <<mIsRunning, mPlayStream, mRecordStream, mCurrentFrame>>
tracks == <<mTracks, mTrackMutex>>
recording == <<mIsRecording, mRecordingFile, mRecordStartFrame, mRecordedSampleCount>>
locals == <<numFrames, currentFrame, readResult, outputBuffer>>
recHist == <<lastRecG, appendedG>>
ghosts == <<markG, recG, recHist>>
vars == <<engine, tracks, recording, cpc, apc, locals, ghosts>>

\* A callback has read the clock (line 221) and not yet advanced it (line 284).
InFlight == apc # "idle"
Carry == IF InFlight THEN numFrames ELSE 0

\* --------------------------------------------------------- stream handles
\* AudioStream::start(): a stream that is Open or Stopped becomes Started when
\* the device accepts the request.
StreamStart(s, ok) == IF s \in {"Stopped", "Open"} /\ ok THEN "Started" ELSE s

\* AudioStream::stop(): a live stream becomes Stopped; a closed one stays closed.
StreamStop(s) == IF s \in Live THEN "Stopped" ELSE s

\* openStreams(): the builder resets the handle and fills it on success; the
\* capture stream is opened only after the playback stream opened.
OpenStreamsPost(play, rec, playOpens, recOpens) ==
    IF ~playOpens
    THEN [play |-> "None", rec |-> rec]
    ELSE [play |-> "Open", rec |-> IF recOpens THEN "Open" ELSE "None"]

\* start() calls openStreams() in these states of the playback handle.
NeedsOpen(play) == play \in {"None", "Closed"}

\* start(): the state it leaves, given the device's answers.
StartPost(running, play, rec, playOpens, recOpens, recStarts, playStarts) ==
    IF running
    THEN [running |-> running, play |-> play, rec |-> rec]
    ELSE LET o == IF NeedsOpen(play)
                  THEN OpenStreamsPost(play, rec, playOpens, recOpens)
                  ELSE [play |-> play, rec |-> rec]
             startable == o.play \in {"Stopped", "Open"}
         IN  [running |-> startable /\ playStarts,
              play |-> StreamStart(o.play, playStarts),
              rec |-> IF o.rec # "None" THEN StreamStart(o.rec, recStarts) ELSE o.rec]

\* stop(): the state it leaves.
StopPost(running, play, rec) ==
    IF ~running
    THEN [running |-> running, play |-> play, rec |-> rec]
    ELSE [running |-> FALSE,
          play |-> IF play # "None" THEN StreamStop(play) ELSE play,
          rec |-> IF rec # "None" THEN StreamStop(rec) ELSE rec]

\* Variant of StopFrame: stop() stores 0 to the frame counter.
StopFrameZero(clock) == 0

\* stop(), lines 80-81: the clock it leaves (the frame counter is not reset).
StopFrame(clock) == clock

\* reset(), lines 88-95: the flag is cleared and both streams are stopped.
ResetStopPost(play, rec) ==
    [running |-> FALSE,
     play |-> IF play # "None" THEN StreamStop(play) ELSE play,
     rec |-> IF rec # "None" THEN StreamStop(rec) ELSE rec]

\* Variant of CloseStreamsPost: only the playback stream is closed.
CloseStreamsPlayOnly(play, rec) == [play |-> "None", rec |-> rec]

\* closeStreams(): each handle that is held is closed and released.
CloseStreamsPost(play, rec) == [play |-> "None", rec |-> "None"]

\* reset(), line 98.
ResetFrame == 0

\* onErrorAfterClose(): the running flag it leaves.
ErrorPost(running, result) ==
    IF result = "ErrorDisconnected" THEN FALSE ELSE running

\* ------------------------------------------------------------------- init
Init ==
    /\ mIsRunning = FALSE
    /\ mPlayStream = "None"
    /\ mRecordStream = "None"
    /\ mCurrentFrame = 0
    /\ mTracks = <<>>
    /\ mTrackMutex = "free"
    /\ mIsRecording = FALSE
    /\ mRecordingFile = [open |-> FALSE, fail |-> FALSE, len |-> 0]
    /\ mRecordStartFrame = 0
    /\ mRecordedSampleCount = 0
    /\ cpc = "idle"
    /\ apc = "idle"
    /\ numFrames = 0
    /\ currentFrame = 0
    /\ readResult = 0
    /\ outputBuffer = <<>>
    /\ markG = NoMark
    /\ recG = FALSE
    /\ lastRecG = "none"
    /\ appendedG = 0

\* ------------------------------------------------------ lifecycle actions
\* start() with the device's answers: whether each stream opens and starts.
StartWith(playOpens, recOpens, recStarts, playStarts) ==
    /\ cpc = "idle"
    /\ LET p == StartPost(mIsRunning, mPlayStream, mRecordStream,
                          playOpens, recOpens, recStarts, playStarts)
       IN  /\ mIsRunning' = p.running
           /\ mPlayStream' = p.play
           /\ mRecordStream' = p.rec
    /\ UNCHANGED <<mCurrentFrame, tracks, recording, cpc, apc, locals, ghosts>>

Start ==
    \E playOpens, recOpens, recStarts, playStarts \in BOOLEAN :
        StartWith(playOpens, recOpens, recStarts, playStarts)

Stop ==
    /\ cpc = "idle"
    /\ LET p == StopPost(mIsRunning, mPlayStream, mRecordStream)
       IN  /\ mIsRunning' = p.running
           /\ mPlayStream' = p.play
           /\ mRecordStream' = p.rec
    /\ mCurrentFrame' = IF mIsRunning THEN StopFrame(mCurrentFrame) ELSE mCurrentFrame
    /\ markG' = IF markG.by = "none" THEN Mark("stop", mCurrentFrame, Carry) ELSE markG
    /\ UNCHANGED <<tracks, recording, cpc, apc, locals, recG, recHist>>

ResetStop ==
    /\ cpc = "idle"
    /\ LET p == ResetStopPost(mPlayStream, mRecordStream)
       IN  /\ mIsRunning' = p.running
           /\ mPlayStream' = p.play
           /\ mRecordStream' = p.rec
    /\ cpc' = "reset_close"
    /\ UNCHANGED <<mCurrentFrame, tracks, recording, apc, locals, ghosts>>

\* closeStreams() returns once no callback is in flight; then the clock is
\* stored.
ResetClose ==
    /\ cpc = "reset_close"
    /\ ~InFlight
    /\ LET p == CloseStreamsPost(mPlayStream, mRecordStream)
       IN  /\ mPlayStream' = p.play
           /\ mRecordStream' = p.rec
    /\ mCurrentFrame' = ResetFrame
    /\ cpc' = "idle"
    /\ markG' = Mark("reset", ResetFrame, 0)
    /\ UNCHANGED <<mIsRunning, tracks, recording, apc, locals, recG, recHist>>

\* Variant of SeekToFrame: the seek also empties the track store.
SeekToFrameClearing ==
    /\ cpc = "idle"
    /\ \E frame \in SeekFrames :
         /\ mCurrentFrame' = frame
         /\ markG' = Mark("seek", frame, Carry)
    /\ mTracks' = <<>>
    /\ UNCHANGED <<mIsRunning, mPlayStream, mRecordStream, mTrackMutex,
                   recording, cpc, apc, locals, recG, recHist>>

\* seekToFrame(), lines 207-212.
SeekToFrame ==
    /\ cpc = "idle"
    /\ \E frame \in SeekFrames :
         /\ mCurrentFrame' = frame
         /\ markG' = Mark("seek", frame, Carry)
    /\ UNCHANGED <<mIsRunning, mPlayStream, mRecordStream, tracks, recording,
                   cpc, apc, locals, recG, recHist>>

\* The error thread: a device error on the running playback stream. The
\* library closes the stream, which waits for the callback in flight, and
\* reports the result.
OnErrorAfterClose ==
    /\ mPlayStream = "Started"
    /\ ~InFlight
    /\ \E result \in ErrorResults :
         mIsRunning' = ErrorPost(mIsRunning, result)
    /\ mPlayStream' = "Closed"
    /\ UNCHANGED <<mRecordStream, mCurrentFrame, tracks, recording, cpc, apc,
                   locals, ghosts>>

\* ------------------------------------------------------------ track store
\* loadTrack(), lines 170-173: int16 to float, in units of 2^-15.
ToFloat(raw) == raw

\* Variant of MakeTrack: lengthFrames is left at zero.
MakeTrackNoLength(data, startFrame) ==
    [data |-> [i \in 1..Len(data) |-> ToFloat(data[i])],
     startFrame |-> startFrame,
     lengthFrames |-> 0]

\* loadTrack(), lines 163-173: the Track it builds.
MakeTrack(data, startFrame) ==
    [data |-> [i \in 1..Len(data) |-> ToFloat(data[i])],
     startFrame |-> startFrame,
     lengthFrames |-> Len(data)]

\* Variant of CanLock: the lock is taken without regard to its holder.
CanLockAlways(mutex) == TRUE

\* std::lock_guard's constructor (lines 161, 180, 251) returns once no thread
\* holds the mutex.
CanLock(mutex) == mutex = "free"

\* Variant of Unlocked: the scope ends without releasing the mutex.
StillLocked(mutex) == mutex

\* std::lock_guard's destructor (lines 177, 183, 273): the mutex after it.
Unlocked(mutex) == "free"

\* loadTrack(), line 161.
LoadTrackLock ==
    /\ cpc = "idle"
    /\ CanLock(mTrackMutex)
    /\ Len(mTracks) < MaxTracks
    /\ mTrackMutex' = "ctl"
    /\ cpc' = "load_push"
    /\ UNCHANGED <<engine, mTracks, recording, apc, locals, ghosts>>

\* loadTrack(), lines 163-177.
LoadTrackPush ==
    /\ cpc = "load_push"
    /\ \E data \in TrackSamples, startFrame \in TrackStartFrames :
         mTracks' = Append(mTracks, MakeTrack(data, startFrame))
    /\ mTrackMutex' = Unlocked(mTrackMutex)
    /\ cpc' = "idle"
    /\ UNCHANGED <<engine, recording, apc, locals, ghosts>>

\* clearTracks(), line 180.
ClearTracksLock ==
    /\ cpc = "idle"
    /\ CanLock(mTrackMutex)
    /\ mTrackMutex' = "ctl"
    /\ cpc' = "clear_do"
    /\ UNCHANGED <<engine, mTracks, recording, apc, locals, ghosts>>

\* clearTracks(), lines 181-183.
ClearTracksDo ==
    /\ cpc = "clear_do"
    /\ mTracks' = <<>>
    /\ mTrackMutex' = Unlocked(mTrackMutex)
    /\ cpc' = "idle"
    /\ UNCHANGED <<engine, recording, apc, locals, ghosts>>

\* ------------------------------------------------------ recording control
\* std::ofstream::open: fails on a stream that is already open (the old file
\* stays attached and failbit is set); otherwise the file system decides.
FileOpen(file, ok) ==
    IF file.open THEN [file EXCEPT !.fail = TRUE]
    ELSE IF ok THEN [open |-> TRUE, fail |-> FALSE, len |-> 0]
    ELSE [open |-> FALSE, fail |-> TRUE, len |-> 0]

\* Line 188: open() attaches the file at the path only on a stream that holds
\* no file and when the file system grants it.
OpenSucceeds(file, ok) == ~file.open /\ ok

\* std::ofstream::close.
FileClose(file) == IF file.open THEN [file EXCEPT !.open = FALSE] ELSE file

\* std::ofstream::write of n samples: appends on a good open stream, and
\* otherwise appends nothing and marks the stream failed.
FileWrite(file, n) ==
    IF file.open /\ ~file.fail
    THEN [file EXCEPT !.len = @ + n]
    ELSE [file EXCEPT !.fail = TRUE]

\* startRecording(), line 186.
StartRecordingThreshold ==
    /\ cpc = "idle"
    /\ \E startFrame \in RecordStartFrames : mRecordStartFrame' = startFrame
    /\ cpc' = "rec_zero"
    /\ recG' = (recG \/ InFlight)
    /\ UNCHANGED <<engine, tracks, mIsRecording, mRecordingFile,
                   mRecordedSampleCount, apc, locals, markG, recHist>>

\* startRecording(), line 187.
StartRecordingZero ==
    /\ cpc = "rec_zero"
    /\ mRecordedSampleCount' = 0
    /\ cpc' = "rec_open"
    /\ appendedG' = 0
    /\ recG' = (recG \/ InFlight)
    /\ UNCHANGED <<engine, tracks, mIsRecording, mRecordingFile,
                   mRecordStartFrame, apc, locals, markG, lastRecG>>

\* startRecording(), line 188.
StartRecordingOpen ==
    /\ cpc = "rec_open"
    /\ \E ok \in BOOLEAN :
         /\ mRecordingFile' = FileOpen(mRecordingFile, ok)
         /\ lastRecG' = IF OpenSucceeds(mRecordingFile, ok) THEN "opened" ELSE "failed"
    /\ cpc' = "rec_enable"
    /\ recG' = (recG \/ InFlight)
    /\ UNCHANGED <<engine, tracks, mIsRecording, mRecordStartFrame,
                   mRecordedSampleCount, apc, locals, markG, appendedG>>

\* startRecording(), lines 190-195.
StartRecordingEnable ==
    /\ cpc = "rec_enable"
    /\ mIsRecording' = IF mRecordingFile.open THEN TRUE ELSE mIsRecording
    /\ cpc' = "idle"
    /\ recG' = (recG \/ InFlight)
    /\ UNCHANGED <<engine, tracks, mRecordingFile, mRecordStartFrame,
                   mRecordedSampleCount, apc, locals, markG, recHist>>

\* stopRecording(), line 199.
StopRecordingDisable ==
    /\ cpc = "idle"
    /\ mIsRecording' = FALSE
    /\ cpc' = "stoprec_close"
    /\ recG' = (recG \/ InFlight)
    /\ UNCHANGED <<engine, tracks, mRecordingFile, mRecordStartFrame,
                   mRecordedSampleCount, apc, locals, markG, recHist>>

\* stopRecording(), lines 201-204.
StopRecordingClose ==
    /\ cpc = "stoprec_close"
    /\ mRecordingFile' = FileClose(mRecordingFile)
    /\ cpc' = "idle"
    /\ lastRecG' = "stopped"
    /\ recG' = (recG \/ InFlight)
    /\ UNCHANGED <<engine, tracks, mIsRecording, mRecordStartFrame,
                   mRecordedSampleCount, apc, locals, markG, appendedG>>

\* ----------------------------------------------------------- onAudioReady
\* Line 248: numFrames * 2 interleaved slots of silence.
Silence(n) == [k \in 1..(2 * n) |-> 0]

\* Variant of Overlaps: a track counts only when the window starts inside it.
OverlapsFromStart(trackOffset, track, n) ==
    trackOffset >= 0 /\ trackOffset < track.lengthFrames

\* Line 255: currentFrame - track.startFrame in 64-bit signed arithmetic.  A
\* difference outside the range is undefined behaviour: the build either
\* leaves the wrapped value of the subtraction, or, having folded the
\* subtraction into the comparisons of line 258 (fold), tests the mathematical
\* value.
TrackOffset(cur, startFrame, fold) ==
    IF fold THEN cur - startFrame ELSE WrapClock(cur - startFrame)

\* Line 258: the track plays in the window.  The sum is evaluated only when
\* the first test passed.
Overlaps(trackOffset, track, n) ==
    trackOffset < track.lengthFrames /\ (trackOffset + n) > 0

\* Line 262: the sample index lies in the track.
InTrack(sampleIndex, track) ==
    sampleIndex >= 0 /\ sampleIndex < track.lengthFrames

\* Lines 259-270: the frames i .. n-1 of one track added to the buffer.  Each
\* pass of the loop adds to the two slots of its own frame only, so the loop
\* is the slot-wise sum.
AddFrames(buf, track, trackOffset, i, n) ==
    [slot \in DOMAIN buf |->
        LET frame == (slot - 1) \div 2
            sampleIndex == trackOffset + frame
        IN  IF frame >= i /\ frame < n /\ InTrack(sampleIndex, track)
            THEN buf[slot] + track.data[sampleIndex + 1]
            ELSE buf[slot]]

\* Lines 253-272: the tracks k .. of the store added to the buffer, in order.
RECURSIVE MixTracks(_, _, _, _, _, _)
MixTracks(buf, trks, k, cur, n, fold) ==
    IF k > Len(trks) THEN buf
    ELSE LET track == trks[k]
             trackOffset == TrackOffset(cur, track.startFrame, fold)
             next == IF Overlaps(trackOffset, track, n)
                     THEN AddFrames(buf, track, trackOffset, 0, n)
                     ELSE buf
         IN  MixTracks(next, trks, k + 1, cur, n, fold)

\* Line 226: the capture stream is read in this state only.
CanRead(rec) == rec # "None" /\ rec = "Started"

\* Variant of GateOpen: the comparison is reversed.
GateReversed(cur, threshold) == threshold >= cur

\* Line 236: the recording gate.
GateOpen(cur, threshold) == cur >= threshold

\* Line 239: the amount added to the captured-sample counter.
CountAdd(read, n) == read

\* Variant of Advance: the clock counts callbacks, not frames.
AdvanceByOne(clock, cur, n) == clock + 1

\* Variant of Advance: the callback stores its earlier read plus numFrames.
AdvanceStale(clock, cur, n) == cur + n

\* Line 284: the clock after fetch_add, which wraps at the clock's width.
Advance(clock, cur, n) == WrapClock(clock + n)

\* Line 221: the callback reads the clock.
CbBegin ==
    /\ apc = "idle"
    /\ mPlayStream = "Started"
    /\ \E n \in 1..MaxFrames :
         /\ mCurrentFrame + n <= MaxClock
         /\ numFrames' = n
    /\ currentFrame' = mCurrentFrame
    /\ apc' = "read"
    /\ markG' = NoMark
    /\ recG' = FALSE
    /\ UNCHANGED <<engine, tracks, recording, cpc, readResult, outputBuffer,
                   recHist>>

\* Lines 226-234: the non-blocking read, then the tests of its result and of
\* the recording flag.
CbRead ==
    /\ apc = "read"
    /\ IF CanRead(mRecordStream)
       THEN \E r \in 0..numFrames :
              /\ mRecordedSampleCount + r <= MaxRecorded
              /\ mRecordingFile.len + r <= MaxRecorded
              /\ readResult' = r
              /\ apc' = IF r > 0 /\ mIsRecording THEN "chk_open" ELSE "lock"
       ELSE /\ readResult' = 0
            /\ apc' = "lock"
    /\ UNCHANGED <<engine, tracks, recording, cpc, numFrames, currentFrame,
                   outputBuffer, ghosts>>

\* Line 234: mRecordingFile.is_open().
CbCheckOpen ==
    /\ apc = "chk_open"
    /\ apc' = IF mRecordingFile.open THEN "chk_gate" ELSE "lock"
    /\ UNCHANGED <<engine, tracks, recording, cpc, locals, ghosts>>

\* Line 236.
CbCheckGate ==
    /\ apc = "chk_gate"
    /\ apc' = IF GateOpen(currentFrame, mRecordStartFrame) THEN "write" ELSE "lock"
    /\ UNCHANGED <<engine, tracks, recording, cpc, locals, ghosts>>

\* Lines 237-238.
CbWrite ==
    /\ apc = "write"
    /\ mRecordingFile' = FileWrite(mRecordingFile, readResult)
    /\ appendedG' = appendedG + (FileWrite(mRecordingFile, readResult).len - mRecordingFile.len)
    /\ apc' = "count"
    /\ UNCHANGED <<engine, tracks, mIsRecording, mRecordStartFrame,
                   mRecordedSampleCount, cpc, locals, markG, recG, lastRecG>>

\* Line 239.
CbCount ==
    /\ apc = "count"
    /\ mRecordedSampleCount' = mRecordedSampleCount + CountAdd(readResult, numFrames)
    /\ apc' = "lock"
    /\ UNCHANGED <<engine, tracks, mIsRecording, mRecordingFile,
                   mRecordStartFrame, cpc, locals, ghosts>>

\* Lines 248-251: the buffer is cleared and the track mutex taken.
CbLock ==
    /\ apc = "lock"
    /\ CanLock(mTrackMutex)
    /\ mTrackMutex' = "audio"
    /\ outputBuffer' = Silence(numFrames)
    /\ apc' = "mix"
    /\ UNCHANGED <<engine, mTracks, recording, cpc, numFrames, currentFrame,
                   readResult, ghosts>>

\* Lines 253-273: the summation pass, and the release of the mutex.
CbMix ==
    /\ apc = "mix"
    /\ \E fold \in BOOLEAN :
         outputBuffer' = MixTracks(outputBuffer, mTracks, 1, currentFrame,
                                   numFrames, fold)
    /\ mTrackMutex' = Unlocked(mTrackMutex)
    /\ apc' = "advance"
    /\ UNCHANGED <<engine, mTracks, recording, cpc, numFrames, currentFrame,
                   readResult, ghosts>>

\* Lines 276-285: the buffer is clipped in place and handed to the device, and
\* the clock advanced.
CbAdvance ==
    /\ apc = "advance"
    /\ mCurrentFrame' = Advance(mCurrentFrame, currentFrame, numFrames)
    /\ apc' = "idle"
    /\ numFrames' = 0
    /\ currentFrame' = 0
    /\ readResult' = 0
    /\ outputBuffer' = <<>>
    /\ recG' = FALSE
    /\ UNCHANGED <<mIsRunning, mPlayStream, mRecordStream, tracks, recording,
                   cpc, markG, recHist>>

Next ==
    \/ Start
    \/ Stop
    \/ ResetStop
    \/ ResetClose
    \/ SeekToFrame
    \/ OnErrorAfterClose
    \/ LoadTrackLock
    \/ LoadTrackPush
    \/ ClearTracksLock
    \/ ClearTracksDo
    \/ StartRecordingThreshold
    \/ StartRecordingZero
    \/ StartRecordingOpen
    \/ StartRecordingEnable
    \/ StopRecordingDisable
    \/ StopRecordingClose
    \/ CbBegin
    \/ CbRead
    \/ CbCheckOpen
    \/ CbCheckGate
    \/ CbWrite
    \/ CbCount
    \/ CbLock
    \/ CbMix
    \/ CbAdvance

Spec == Init /\ [][Next]_vars

\* The host drives the lifecycle, the clock and the track store and never
\* arms a recording, so each callback reads and discards the captured samples.
NextLifecycle ==
    \/ LoadTrackLock
    \/ LoadTrackPush
    \/ ClearTracksLock
    \/ ClearTracksDo
    \/ Start
    \/ Stop
    \/ ResetStop
    \/ ResetClose
    \/ SeekToFrame
    \/ OnErrorAfterClose
    \/ CbBegin
    \/ CbRead
    \/ CbLock
    \/ CbMix
    \/ CbAdvance

SpecLifecycle == Init /\ [][NextLifecycle]_vars

\* The host starts and stops the engine and controls the recording; it loads
\* no track.
NextCapture ==
    \/ Start
    \/ Stop
    \/ StartRecordingThreshold
    \/ StartRecordingZero
    \/ StartRecordingOpen
    \/ StartRecordingEnable
    \/ StopRecordingDisable
    \/ StopRecordingClose
    \/ CbBegin
    \/ CbRead
    \/ CbCheckOpen
    \/ CbCheckGate
    \/ CbWrite
    \/ CbCount
    \/ CbLock
    \/ CbMix
    \/ CbAdvance

SpecCapture == Init /\ [][NextCapture]_vars

\* One callback's summation pass on a loaded store.  The host has loaded up to
\* two of these clips and sought the clock; the callback has read the clock
\* and the capture stream and stands before line 248.
MixClips ==
    {MakeTrack([k \in 1..50 |-> k], 100),
     MakeTrack([k \in 1..30 |-> 100 * k], 110),
     MakeTrack(<<>>, 100),
     MakeTrack(<<16384>>, -1),
     MakeTrack(<<-32768, 32767>>, FrameMin),
     MakeTrack(<<-32768, 32767>>, FrameMax)}
MixStores ==
    {<<>>} \cup {<<a>> : a \in MixClips}
           \cup {<<a, b>> : a \in MixClips, b \in MixClips}
MixClocks == {ClockMin, -1, 0, 60, 80, 100, 120, 149, ClockMax - 1, ClockMax}
MixFrames == {1, 2, 40}

InitMix ==
    /\ mIsRunning = TRUE
    /\ mPlayStream = "Started"
    /\ mRecordStream = "Started"
    /\ mCurrentFrame \in MixClocks
    /\ mTracks \in MixStores
    /\ mTrackMutex = "free"
    /\ mIsRecording = FALSE
    /\ mRecordingFile = [open |-> FALSE, fail |-> FALSE, len |-> 0]
    /\ mRecordStartFrame = 0
    /\ mRecordedSampleCount = 0
    /\ cpc = "idle"
    /\ apc = "lock"
    /\ numFrames \in MixFrames
    /\ currentFrame = mCurrentFrame
    /\ readResult = 0
    /\ outputBuffer = <<>>
    /\ markG = NoMark
    /\ recG = FALSE
    /\ lastRecG = "none"
    /\ appendedG = 0

NextMix ==
    \/ CbLock
    \/ CbMix
    \/ CbAdvance

SpecMix == InitMix /\ [][NextMix]_vars

\* The operations that wait for another thread, the track mutex and the
\* closing of the streams, under fair scheduling: the audio thread goes on
\* running a callback it has begun, and gets the track mutex if the mutex is
\* free again and again; the control thread goes on running an operation it
\* has begun.  No fairness is asked of the host's decision to call an operation
\* or of the device's decision to deliver a callback.
NextBlocking ==
    \/ LoadTrackLock
    \/ LoadTrackPush
    \/ ClearTracksLock
    \/ ClearTracksDo
    \/ Start
    \/ Stop
    \/ ResetStop
    \/ ResetClose
    \/ CbBegin
    \/ CbRead
    \/ CbLock
    \/ CbMix
    \/ CbAdvance

AudioRuns == CbRead \/ CbMix \/ CbAdvance
ControlRuns == LoadTrackPush \/ ClearTracksDo \/ ResetClose

SpecBlockingFair ==
    /\ Init
    /\ [][NextBlocking]_vars
    /\ WF_vars(AudioRuns)
    /\ SF_vars(CbLock)
    /\ WF_vars(ControlRuns)

\* The host has loaded its clips before it starts the engine; it then starts
\* and stops the engine, controls the recording and seeks.
SeekStores == {<<>>, <<MakeTrack(<<16384>>, 0)>>}

InitSeek ==
    /\ mIsRunning = FALSE
    /\ mPlayStream = "None"
    /\ mRecordStream = "None"
    /\ mCurrentFrame = 0
    /\ mTracks \in SeekStores
    /\ mTrackMutex = "free"
    /\ mIsRecording = FALSE
    /\ mRecordingFile = [open |-> FALSE, fail |-> FALSE, len |-> 0]
    /\ mRecordStartFrame = 0
    /\ mRecordedSampleCount = 0
    /\ cpc = "idle"
    /\ apc = "idle"
    /\ numFrames = 0
    /\ currentFrame = 0
    /\ readResult = 0
    /\ outputBuffer = <<>>
    /\ markG = NoMark
    /\ recG = FALSE
    /\ lastRecG = "none"
    /\ appendedG = 0

NextSeek ==
    \/ SeekToFrame
    \/ Start
    \/ Stop
    \/ StartRecordingThreshold
    \/ StartRecordingZero
    \/ StartRecordingOpen
    \/ StartRecordingEnable
    \/ StopRecordingDisable
    \/ StopRecordingClose
    \/ CbBegin
    \/ CbRead
    \/ CbCheckOpen
    \/ CbCheckGate
    \/ CbWrite
    \/ CbCount
    \/ CbLock
    \/ CbMix
    \/ CbAdvance

SpecSeek == InitSeek /\ [][NextSeek]_vars

\* ----------------------------------------------------------------- claims
\* Steps of the audio thread and of the error thread, as seen on a transition.
CbBeginStep == apc = "idle" /\ apc' = "read"
CbAdvanceStep == apc = "advance" /\ apc' = "idle"
ErrorStep == mPlayStream # "Closed" /\ mPlayStream' = "Closed"
ResetReturnStep == cpc = "reset_close" /\ cpc' = "idle"

\* C1: a callback during which no seekToFrame ran leaves the clock at the value
\* it read at its start plus its numFrames, which is above the value before.
C1_ClockAdvancesByNumFrames ==
    [][(CbAdvanceStep /\ markG.by # "seek")
         => /\ mCurrentFrame' = currentFrame + numFrames
            /\ mCurrentFrame' > mCurrentFrame]_vars

\* A callback of MaxFrames frames has returned and left the clock at MaxClock.
C1_Witness ==
    /\ apc = "idle"
    /\ mPlayStream = "Started"
    /\ markG.by = "none"
    /\ mCurrentFrame = MaxClock

\* C2 as stated: the first callback to begin after seekToFrame(F) reads F.
C2_NextCallbackUsesSeekFrame ==
    [][(CbBeginStep /\ markG.by = "seek") => currentFrame' = markG.frame]_vars

\* C2 as amended: the first callback to begin after seekToFrame(F), with no
\* reset in between, reads F when no callback was in flight at the seek, and
\* F plus the numFrames of the callback that was in flight otherwise.
C2_NextCallbackUsesSeekFramePlusCarry ==
    [][(CbBeginStep /\ markG.by = "seek")
         => currentFrame' = markG.frame + markG.carry]_vars

\* A seek ran while a callback was in flight, that callback has returned and
\* the next one can begin.
C2_Witness ==
    /\ markG.by = "seek"
    /\ markG.carry > 0
    /\ apc = "idle"
    /\ mPlayStream = "Started"
    /\ mCurrentFrame = markG.frame + markG.carry
    /\ mCurrentFrame + 1 <= MaxClock

\* C3 as stated: the first callback after stop() and start(), with no reset and
\* no seek in between, reads the clock value held when stop() was called.
C3_ResumeFromStopFrame ==
    [][(CbBeginStep /\ markG.by = "stop") => currentFrame' = markG.frame]_vars

\* C3 as amended: stop() and start() leave the clock alone, and the first
\* callback after the restart reads the value held when stop() was called,
\* plus the numFrames of the callback that was in flight at that moment.
C3_ResumeFromStopFramePlusCarry ==
    [][/\ (CbBeginStep /\ markG.by = "stop")
            => currentFrame' = markG.frame + markG.carry
       /\ (Stop \/ Start) => mCurrentFrame' = mCurrentFrame]_vars

\* The engine was stopped away from frame 0 and runs again; no callback has
\* begun since.
C3_Witness ==
    /\ markG.by = "stop"
    /\ markG.frame > 0
    /\ mIsRunning
    /\ mPlayStream = "Started"
    /\ apc = "idle"
    /\ mCurrentFrame = markG.frame + markG.carry
    /\ mCurrentFrame + 1 <= MaxClock

\* C4: when reset() returns the running flag is false, both handles are
\* released, the clock is 0 and no callback is in flight; and the first
\* callback after the next start(), with no seek in between, reads 0.
C4_ResetZeroes ==
    [][/\ ResetReturnStep
            => /\ ~mIsRunning'
               /\ mPlayStream' = "None"
               /\ mRecordStream' = "None"
               /\ mCurrentFrame' = 0
               /\ apc' = "idle"
       /\ (CbBeginStep /\ markG.by = "reset") => currentFrame' = 0]_vars

\* The engine was reset and runs again; no callback has begun since.
C4_Witness ==
    /\ markG.by = "reset"
    /\ mIsRunning
    /\ mPlayStream = "Started"
    /\ apc = "idle"
    /\ mCurrentFrame = 0

\* C5: a callback reaches the write and the count only through its tests, each
\* true when the callback makes it, under every interleaving: the read
\* returned at least one sample and recording is enabled, the sink is open,
\* currentFrame >= mRecordStartFrame; the counter then grows by the samples read
\* (not numFrames). A callback whose currentFrame is below the threshold has
\* read the device and leaves the sink and the counter alone. In a callback
\* during which no recording control ran, the four conditions also hold in the
\* state in which the sink or the counter changes.
C5_RecordingGate ==
    [][/\ (apc' = "chk_open" /\ apc # apc')
            => (apc = "read" /\ CanRead(mRecordStream) /\ readResult' > 0
                  /\ mIsRecording)
       /\ (apc' = "chk_gate" /\ apc # apc')
            => (apc = "chk_open" /\ mRecordingFile.open)
       /\ (apc' = "write" /\ apc # apc')
            => (apc = "chk_gate" /\ currentFrame >= mRecordStartFrame)
       /\ (apc' = "count" /\ apc # apc') => apc = "write"
       /\ (apc' # apc /\ mRecordingFile' # mRecordingFile)
            => /\ apc = "write"
               /\ mRecordingFile'.len \in {mRecordingFile.len,
                                           mRecordingFile.len + readResult}
       /\ (apc' # apc /\ mRecordedSampleCount' # mRecordedSampleCount)
            => /\ apc = "count"
               /\ mRecordedSampleCount' = mRecordedSampleCount + readResult
       /\ (apc' # apc /\ ~recG
             /\ (mRecordedSampleCount' # mRecordedSampleCount
                   \/ mRecordingFile' # mRecordingFile))
            => /\ mIsRecording
               /\ mRecordingFile.open
               /\ readResult > 0
               /\ currentFrame >= mRecordStartFrame
       /\ (apc = "chk_gate" /\ apc' # apc
             /\ currentFrame < mRecordStartFrame)
            => /\ readResult > 0
               /\ apc' = "lock"
               /\ UNCHANGED <<mRecordedSampleCount, mRecordingFile>>]_vars

\* A callback of two frames read one sample, appended it and counted it.
C5_Witness ==
    /\ apc = "lock"
    /\ ~recG
    /\ numFrames = 2
    /\ readResult = 1
    /\ mRecordedSampleCount = 1
    /\ mRecordingFile.len = 1
    /\ currentFrame >= mRecordStartFrame

\* start() fails when the playback stream does not open or does not start.
PlayFails(playOpens, playStarts) ==
    /\ ~mIsRunning
    /\ (NeedsOpen(mPlayStream) /\ ~playOpens) \/ ~playStarts

\* C6: start() sets the running flag only with the playback stream Started,
\* and a start() whose playback stream fails to open or to start leaves the
\* running flag false, no stream Started, and the clock and tracks as they
\* were.
C6_FailedStartLeavesState ==
    [][\A playOpens, recOpens, recStarts, playStarts \in BOOLEAN :
         StartWith(playOpens, recOpens, recStarts, playStarts)
           => /\ mIsRunning' => mPlayStream' = "Started"
              /\ PlayFails(playOpens, playStarts)
                   => /\ ~mIsRunning'
                      /\ mPlayStream' # "Started"
                      /\ mRecordStream' # "Started"
                      /\ mCurrentFrame' = mCurrentFrame
                      /\ mTracks' = mTracks]_vars

\* C7: after the error thread closed the playback stream and
\* onErrorAfterClose returned, whatever the result reported, the running flag
\* is false and the capture stream is the one it was.
C7_ErrorStopsEngine ==
    [][ErrorStep => (~mIsRunning' /\ mRecordStream' = mRecordStream)]_vars

\* C8: while the playback stream is closed by a device error the engine is
\* stopped, and a start() whose device requests all succeed ends with the
\* playback stream Started and the running flag set.
C8_StartRecoversFromError ==
    (cpc = "idle" /\ mPlayStream = "Closed")
      => /\ ~mIsRunning
         /\ LET p == StartPost(mIsRunning, mPlayStream, mRecordStream,
                               TRUE, TRUE, TRUE, TRUE)
            IN  p.running /\ p.play = "Started"

\* C9: in every state in which start() calls openStreams(), neither the
\* playback nor the capture handle holds a live stream.
C9_NeverReopensLiveStream ==
    (cpc = "idle" /\ ~mIsRunning /\ NeedsOpen(mPlayStream))
      => (mPlayStream \notin Live /\ mRecordStream \notin Live)

\* C10: in every state in which stop() can be called, it returns with the
\* running flag false, neither stream Started, and each handle held as before
\* (not released, and closed only if it was closed).
C10_StopPausesBothStreams ==
    cpc = "idle"
      => LET p == StopPost(mIsRunning, mPlayStream, mRecordStream)
         IN  /\ ~p.running
             /\ p.play # "Started"
             /\ p.rec # "Started"
             /\ (p.play = "None") = (mPlayStream = "None")
             /\ (p.rec = "None") = (mRecordStream = "None")
             /\ (p.play = "Closed") = (mPlayStream = "Closed")
             /\ (p.rec = "Closed") = (mRecordStream = "Closed")

\* ---------------------------------------------------------------------------
\* C11. startRecording sets the recording flag to true only if this call
\* opened the sink; while the last startRecording is one whose open failed,
\* recording is disabled and the captured-sample counter is 0, whatever
\* callbacks run, and whatever the state the call was made in.
StartRecordingReturnStep == cpc = "rec_enable" /\ cpc' = "idle"

C11_EnabledOnlyIfSinkOpened ==
    /\ [][StartRecordingReturnStep => (mIsRecording' => lastRecG = "opened")]_vars
    /\ []((cpc = "idle" /\ lastRecG = "failed")
            => (~mIsRecording /\ mRecordedSampleCount = 0))

\* ---------------------------------------------------------------------------
\* C12. After stopRecording() has returned, and until the next startRecording,
\* recording is disabled and the sink closed, and the captured-sample counter
\* and the recording start frame keep the values of the ended session:
\* stopRecording changes neither, and no callback step that runs after the
\* return changes the counter.
StopRecordingStep == cpc' # cpc /\ (cpc' = "stoprec_close" \/ cpc = "stoprec_close")
AfterStopRecording == cpc = "idle" /\ lastRecG = "stopped"

C12_StoppedSessionKeepsValues ==
    /\ [](AfterStopRecording => (~mIsRecording /\ ~mRecordingFile.open))
    /\ [][StopRecordingStep
            => UNCHANGED <<mRecordedSampleCount, mRecordStartFrame>>]_vars
    /\ [][(AfterStopRecording /\ cpc' = "idle")
            => UNCHANGED <<mRecordedSampleCount, mRecordStartFrame>>]_vars

\* ---------------------------------------------------------------------------
\* C13. For a callback at clock c with n frames, the value accumulated before
\* clipping in the left and in the right slot of each output frame i in [0, n)
\* is the sum, over the loaded tracks t with 0 <= c + i - t.startFrame <
\* t.lengthFrames, of t's sample at index c + i - t.startFrame; a track that
\* does not cover the frame contributes nothing to it.
RECURSIVE FrameSum(_, _, _)
FrameSum(trks, k, frame) ==
    IF k > Len(trks) THEN 0
    ELSE LET t == trks[k]
             here == IF 0 <= frame - t.startFrame
                        /\ frame - t.startFrame < t.lengthFrames
                     THEN t.data[frame - t.startFrame + 1]
                     ELSE 0
         IN  here + FrameSum(trks, k + 1, frame)

CbMixStep == apc = "mix" /\ apc' = "advance"

C13_MixIsSumOfOverlappingTracks ==
    [][CbMixStep =>
         /\ Len(outputBuffer') = 2 * numFrames
         /\ \A i \in 0..(numFrames - 1) :
              /\ outputBuffer'[i * 2 + 1] = FrameSum(mTracks, 1, currentFrame + i)
              /\ outputBuffer'[i * 2 + 2] = FrameSum(mTracks, 1, currentFrame + i)]_vars

\* The example of the claim: a track at 100 of length 50, a callback at clock
\* 80 with 40 frames; frames 0..19 stay silent and frames 20..39 carry the
\* samples 0..19 of the track.
C13_Witness ==
    /\ apc = "advance"
    /\ Len(mTracks) = 1
    /\ mTracks[1].startFrame = 100
    /\ mTracks[1].lengthFrames = 50
    /\ currentFrame = 80
    /\ numFrames = 40
    /\ \A i \in 0..19 : outputBuffer[i * 2 + 1] = 0 /\ outputBuffer[i * 2 + 2] = 0
    /\ \A i \in 20..39 :
         /\ outputBuffer[i * 2 + 1] = mTracks[1].data[i - 20 + 1]
         /\ outputBuffer[i * 2 + 2] = mTracks[1].data[i - 20 + 1]
         /\ outputBuffer[i * 2 + 1] # 0

\* ---------------------------------------------------------------------------
\* C14. seekToFrame changes only the clock: the loaded tracks, the recording
\* flag, threshold, counter and sink, the running flag and both streams'
\* states are the same after the call as before it, for every frame value,
\* negative ones and ones beyond every track included.
SeekStep == markG' # markG /\ markG'.by = "seek"

C14_SeekChangesOnlyClock ==
    [][SeekStep =>
         /\ mCurrentFrame' = markG'.frame
         /\ UNCHANGED <<mTracks, mIsRecording, mRecordStartFrame,
                        mRecordedSampleCount, mRecordingFile, mIsRunning,
                        mPlayStream, mRecordStream>>]_vars

\* A seek to a negative frame, made while a track is loaded, the engine runs
\* and a recording that has captured samples is enabled.
C14_Witness ==
    /\ markG.by = "seek"
    /\ markG.frame < 0
    /\ mCurrentFrame = markG.frame
    /\ mTracks # <<>>
    /\ mIsRunning
    /\ mPlayStream = "Started"
    /\ mIsRecording
    /\ mRecordingFile.open
    /\ mRecordedSampleCount > 0

\* ---------------------------------------------------------------------------
\* C15. clearTracks and loadTrack are safe while the audio thread mixes: their
\* critical sections never overlap the summation pass, and the track list
\* does not change from the moment the pass has taken the mutex until it has
\* released it, so the pass mixes the store as it was at one point in time
\* and reads no removed track.
C15_StoreStableWhileMixing ==
    /\ [](~(apc = "mix" /\ cpc \in {"load_push", "clear_do"}))
    /\ [](apc = "mix" => mTrackMutex = "audio")
    /\ [](cpc \in {"load_push", "clear_do"} => mTrackMutex = "ctl")
    /\ [][apc = "mix" => mTracks' = mTracks]_vars

\* The summation pass holds the mutex over a loaded store while the control
\* thread is free to call clearTracks or loadTrack.
C15_Witness ==
    /\ apc = "mix"
    /\ mTrackMutex = "audio"
    /\ mTracks # <<>>
    /\ cpc = "idle"
    /\ mIsRunning

\* ---------------------------------------------------------------------------
\* C16. The track collection changes only by loadTrack, which appends exactly
\* one track at the end (whatever the clip: a repeated one, an empty one), and
\* by clearTracks, which removes all tracks; every track in it has
\* lengthFrames equal to the number of its samples; no other step alters or
\* removes a track.
LoadTrackReturnStep == cpc = "load_push" /\ cpc' = "idle"
ClearTracksReturnStep == cpc = "clear_do" /\ cpc' = "idle"
AppendsOne(old, new) ==
    Len(new) = Len(old) + 1 /\ SubSeq(new, 1, Len(old)) = old

C16_StoreChangesOnlyByLoadAndClear ==
    /\ [](\A k \in 1..Len(mTracks) :
             mTracks[k].lengthFrames = Len(mTracks[k].data))
    /\ [][LoadTrackReturnStep => AppendsOne(mTracks, mTracks')]_vars
    /\ [][ClearTracksReturnStep => mTracks' = <<>>]_vars
    /\ [][mTracks' # mTracks
            => (LoadTrackReturnStep \/ ClearTracksReturnStep)]_vars

\* The same empty clip loaded twice: the store holds both, in order of loading.
C16_Witness ==
    /\ Len(mTracks) = 2
    /\ mTracks[1] = mTracks[2]
    /\ mTracks[2].lengthFrames = 0
    /\ cpc = "idle"
    /\ mPlayStream = "Started"

InClockRange(x) == ClockMin <= x /\ x <= ClockMax

C18_MixArithmeticInRange ==
    /\ [](apc = "mix" =>
            \A k \in 1..Len(mTracks) :
               LET exact == currentFrame - mTracks[k].startFrame
               IN  /\ InClockRange(exact)
                   /\ InClockRange(exact + numFrames)
                   /\ \A i \in 0..(numFrames - 1) : InClockRange(exact + i))
    /\ [](apc = "advance" => InClockRange(mCurrentFrame + numFrames))
    /\ [](apc = "mix" =>
            \A k \in 1..Len(mTracks), fold \in BOOLEAN, i \in 0..(numFrames - 1) :
               LET track == mTracks[k]
                   trackOffset == TrackOffset(currentFrame, track.startFrame, fold)
               IN  (Overlaps(trackOffset, track, numFrames)
                      /\ InTrack(trackOffset + i, track))
                   => (trackOffset + i + 1) \in DOMAIN track.data)

\* ---------------------------------------------------------------------------
\* C19. In every reachable state the captured-sample counter equals the number
\* of samples appended to the sink since the last startRecording zeroed it,
\* under every interleaving of startRecording and stopRecording with a
\* callback's capture path.  The state of a callback between its write (line
\* 238) and its fetch_add (line 239), where the counter is yet to follow the
\* write, is left out.
C19_CounterEqualsAppended ==
    apc # "count" => mRecordedSampleCount = appendedG

\* ---------------------------------------------------------------------------
\* C20. A seek is never lost to a concurrent clock advance: from seekToFrame(F)
\* until the next callback begins (or a reset or another seek intervenes), the
\* clock is F while the callback the seek interleaved with has not advanced
\* it, and F + n once that callback of n frames has; with no callback in
\* flight at the seek it is F.  It is never the callback's own earlier read
\* plus n.
C20_SeekNotLostToAdvance ==
    markG.by = "seek" =>
        IF InFlight \/ markG.carry = 0
        THEN mCurrentFrame = markG.frame
        ELSE mCurrentFrame = markG.frame + markG.carry

\* A seek to a frame other than the one the callback in flight had read has
\* landed, and the callback is about to advance the clock.
C20_Witness ==
    /\ apc = "advance"
    /\ markG.by = "seek"
    /\ markG.carry = numFrames
    /\ markG.frame # currentFrame
    /\ mCurrentFrame = markG.frame

====
